---- MODULE Spec2Model ----
(***************************************************************************)
(* Model of app/pdf_generator.py: the text segmenter (re.split on day      *)
(* markers, parse_section) and the story builder of generate_trip_pdf.     *)
(*                                                                         *)
(* A text is a sequence of tokens.  A token is one character (" ", "\n",   *)
(* ":", a digit, a bullet marker, the letters "a" and "b") or one of the   *)
(* words "Day" / "DAY", which the day-marker regex spells out.  All string *)
(* operations of the source are modelled on these sequences.               *)
(***************************************************************************)
EXTENDS Integers, Sequences, FiniteSets, TLC

\* ---------------------------------------------------------------- bounds
MaxTokens == 4
MaxLines == 4
MaxParseLines == 3
MaxDay == 3

\* ------------------------------------------------------- string helpers
IsDigit(c) == c \in {"1", "2"}

IsSpace(c) == c \in {" ", "\n"}

RECURSIVE LStrip(_)
LStrip(s) == IF s # <<>> /\ IsSpace(Head(s)) THEN LStrip(Tail(s)) ELSE s

RECURSIVE RStrip(_)
RStrip(s) ==
    IF s # <<>> /\ IsSpace(s[Len(s)]) THEN RStrip(SubSeq(s, 1, Len(s) - 1)) ELSE s

\* str.strip()
Strip(s) == RStrip(LStrip(s))

\* str.split(sep) for a one-character separator: always at least one piece
RECURSIVE Split(_, _)
Split(s, sep) ==
    IF \E i \in 1..Len(s) : s[i] = sep
    THEN LET i == CHOOSE k \in 1..Len(s) :
                      s[k] = sep /\ \A j \in 1..(k - 1) : s[j] # sep
         IN  <<SubSeq(s, 1, i - 1)>> \o Split(SubSeq(s, i + 1, Len(s)), sep)
    ELSE <<s>>

\* sep.join(parts)
RECURSIVE Join(_, _)
Join(parts, sep) ==
    IF parts = <<>> THEN <<>>
    ELSE IF Len(parts) = 1 THEN parts[1]
    ELSE parts[1] \o <<sep>> \o Join(Tail(parts), sep)

\* the regex  Day \d+:|DAY \d+:  matches at position i of s
DayMarkerAt(s, i) ==
    /\ i >= 1
    /\ i + 3 <= Len(s)
    /\ s[i] \in {"Day", "DAY"}
    /\ s[i + 1] = " "
    /\ \E k \in (i + 2)..(Len(s) - 1) :
          /\ \A j \in (i + 2)..k : IsDigit(s[j])
          /\ s[k + 1] = ":"

\* re.split(r'(?=Day \d+:|DAY \d+:)', s): the scan of the empty lookahead
\* matches; a match at the first position leaves an empty first piece
\* (the behaviour of re.split on empty matches since Python 3.7)
RECURSIVE SplitFrom(_, _, _)
SplitFrom(s, last, p) ==
    IF p > Len(s) THEN <<SubSeq(s, last, Len(s))>>
    ELSE IF DayMarkerAt(s, p)
         THEN <<SubSeq(s, last, p - 1)>> \o SplitFrom(s, p, p + 1)
         ELSE SplitFrom(s, last, p + 1)

re_split(s) == SplitFrom(s, 1, 1)

\* re.match(r'Day \d+:|DAY \d+:', day)
re_match(day) == DayMarkerAt(day, 1)

\* utils.clean_text: trim, collapse runs of whitespace to one space
RECURSIVE CollapseSpaces(_)
CollapseSpaces(s) ==
    IF Len(s) < 2 THEN s
    ELSE IF IsSpace(s[1]) /\ IsSpace(s[2]) THEN CollapseSpaces(Tail(s))
    ELSE <<s[1]>> \o CollapseSpaces(Tail(s))

clean_text(t) == CollapseSpaces(Strip(t))

\* ------------------------------------------------------- parse_section
\* U+2022, the bullet character, written as one token
Bullet == "u2022"

BulletMarkers == {Bullet, "-", "*"}

\* line.lstrip('<U+2022>-* ')
RECURSIVE LStripBullet(_)
LStripBullet(s) ==
    IF s # <<>> /\ Head(s) \in (BulletMarkers \cup {" "})
    THEN LStripBullet(Tail(s)) ELSE s

HasColon(line) == \E i \in 1..Len(line) : line[i] = ":"

\* line.split(':')[0]
BeforeColon(line) == Split(line, ":")[1]

AnyDigit(s) == \E i \in 1..Len(s) : IsDigit(s[i])

\* mutant: every line with a colon is a header, the digit test is lost
IsHeaderLine_AnyColon(line) == HasColon(line)

\* the test of the first branch of the loop body
IsHeaderLine(line) == HasColon(line) /\ ~AnyDigit(BeforeColon(line))

\* the test of the second branch
StartsWithBullet(line) == line # <<>> /\ Head(line) \in BulletMarkers

NewSection(header) == [header |-> header, points |-> <<>>, info |-> <<>>]

\* current_section['header'] or current_section['points']
Qualifies(section) == section.header # <<>> \/ section.points # <<>>

ParserStart ==
    [sections |-> <<>>, current_section |-> NewSection(<<>>), info_block |-> <<>>]

\* one pass of the loop body over a raw line
ConsumeLine(st, raw) ==
    LET line == Strip(raw) IN
    IF line = <<>>
    THEN IF st.info_block # <<>>
         THEN [st EXCEPT !.current_section.info = Join(st.info_block, " "),
                         !.info_block = <<>>]
         ELSE st
    ELSE IF IsHeaderLine(line)
    THEN [sections |-> IF Qualifies(st.current_section)
                       THEN Append(st.sections, st.current_section)
                       ELSE st.sections,
          current_section |-> NewSection(line),
          info_block |-> <<>>]
    ELSE IF StartsWithBullet(line)
    THEN LET point == clean_text(LStripBullet(line)) IN
         IF point # <<>>
         THEN [st EXCEPT !.current_section.points = Append(@, point)]
         ELSE st
    ELSE [st EXCEPT !.info_block = Append(@, line)]

\* the code after the loop
FinishParse(st) ==
    LET cur == IF st.info_block # <<>>
               THEN [st.current_section EXCEPT !.info = Join(st.info_block, " ")]
               ELSE st.current_section
    IN  [st EXCEPT !.current_section = cur,
                   !.sections = IF Qualifies(cur) THEN Append(@, cur) ELSE @]

RECURSIVE ConsumeAll(_, _)
ConsumeAll(st, ls) ==
    IF ls = <<>> THEN st ELSE ConsumeAll(ConsumeLine(st, Head(ls)), Tail(ls))

parse_section(content) ==
    FinishParse(ConsumeAll(ParserStart, Split(content, "\n"))).sections

\* ------------------------------------------------------- render blocks
Paragraph(text, style) ==
    [type |-> "Paragraph", style |-> style, text |-> text, num |-> <<>>]

Spacer(w, h) == [type |-> "Spacer", style |-> "", text |-> <<>>, num |-> <<w, h>>]


\* add_separator: a one-cell rule table and a spacer
SeparatorRule(width) ==
    [type |-> "Table", style |-> "separator", text |-> <<"">>, num |-> <<width, 2>>]

\* mutant: the spacer is appended before the rule
add_separator_SpacerFirst(st, width) ==
    st \o <<Spacer(1, 10), SeparatorRule(width)>>

add_separator(st, width) == st \o <<SeparatorRule(width), Spacer(1, 10)>>

\* mutant: the day count leaves out the last day
Duration_Exclusive(s, e) == e - s

\* (end_date - start_date).days + 1
Duration(s, e) == (e - s) + 1

\* create_overview_table: the six rows, the Duration row holding the number
create_overview_table(details) ==
    [type |-> "Table", style |-> "overview",
     text |-> <<"Trip Summary", "Departure", details.start_location,
                "Destination", details.destination,
                "Start Date", "End Date", "Duration", "days">>,
     num |-> <<details.start_date, details.end_date, details.duration>>]

\* mutant: the info box is emitted before the section header
SectionBlocks_InfoFirst(section) ==
    (IF section.info # <<>>
     THEN <<Paragraph(section.info, "InfoBox")>> ELSE <<>>)
    \o (IF section.header # <<>>
        THEN <<Paragraph(section.header, "SectionHeader")>> ELSE <<>>)
    \o [k \in 1..Len(section.points) |->
            Paragraph(<<Bullet, " ">> \o section.points[k], "BulletPoint")]
    \o <<Spacer(1, 8)>>

\* the blocks one section adds to the story
SectionBlocks(section) ==
    (IF section.header # <<>>
     THEN <<Paragraph(section.header, "SectionHeader")>> ELSE <<>>)
    \o (IF section.info # <<>>
        THEN <<Paragraph(section.info, "InfoBox")>> ELSE <<>>)
    \o [k \in 1..Len(section.points) |->
            Paragraph(<<Bullet, " ">> \o section.points[k], "BulletPoint")]
    \o <<Spacer(1, 8)>>

\* ---------------------------------------------------------------- state
VARIABLES
    trip_plan, start_location, destination, start_date, end_date,
    pc, temp_file, result, raised, story, duration,
    days, day_i, content, sections, sec_i,
    p_content, lines, line_i, ps, ppc

gen_vars == <<trip_plan, start_location, destination, start_date, end_date,
              pc, temp_file, result, raised, story, duration,
              days, day_i, content, sections, sec_i>>

parse_vars == <<p_content, lines, line_i, ps, ppc>>

vars == <<gen_vars, parse_vars>>

inputs == <<trip_plan, start_location, destination, start_date, end_date>>

\* ---------------------------------------------------------------- inputs
SeqsUpTo(S, n) == UNION {[1..k -> S] : k \in 0..n}

Tokens == {"Day", " ", "1", ":", "\n", "a"}

RawTexts == SeqsUpTo(Tokens, MaxTokens)

PlanLines ==
    { <<>>,
      <<"Day", " ", "1", ":">>,
      <<"DAY", " ", "1", "2", ":", " ", "a">>,
      <<"a", " ", "Day", " ", "2", ":", " ", "b">>,
      <<"a", ":">>,
      <<"b">>,
      <<"-", " ", "a">> }

LinedTexts == {Join(ls, "\n") : ls \in SeqsUpTo(PlanLines, MaxLines)}

FewTexts ==
    { <<>>,
      <<"Day", " ", "1", ":", "\n", "a", ":", "\n", "-", " ", "a">> }

Date(d) == [ok |-> TRUE, d |-> d]

\* an argument that is no date (a string, say): subtraction raises TypeError
NotADate == [ok |-> FALSE, d |-> 0]

DateInputs == {Date(d) : d \in 1..MaxDay} \cup {NotADate}

Locations == {"Chennai", "Goa"}

IdleParser ==
    /\ p_content = <<>>
    /\ lines = <<>>
    /\ line_i = 0
    /\ ps = ParserStart
    /\ ppc = "idle"

Init ==
    /\ \/ /\ trip_plan \in RawTexts \cup LinedTexts
          /\ start_location = "Chennai"
          /\ destination = "Goa"
          /\ start_date = Date(1)
          /\ end_date = Date(MaxDay)
       \/ /\ trip_plan \in FewTexts
          /\ start_location \in Locations
          /\ destination \in Locations
          /\ start_date \in DateInputs
          /\ end_date \in DateInputs
    /\ pc = "start"
    /\ temp_file = "none"
    /\ result = "none"
    /\ raised = "none"
    /\ story = <<>>
    /\ duration = 0
    /\ days = <<>>
    /\ day_i = 0
    /\ content = <<>>
    /\ sections = <<>>
    /\ sec_i = 0
    /\ IdleParser

\* ---------------------------------------------------- generate_trip_pdf
\* NamedTemporaryFile(delete=False), close, SimpleDocTemplate, styles
CreateTempFile ==
    /\ pc = "start"
    /\ temp_file' = "exists"
    /\ story' = <<>>
    /\ pc' = "title"
    /\ UNCHANGED <<inputs, result, raised, duration, days, day_i, content,
                   sections, sec_i, parse_vars>>

AddTitle ==
    /\ pc = "title"
    /\ story' = Append(story,
                  Paragraph(<<"Travel Itinerary", "\n", start_location, " to ",
                              destination>>, "CustomTitle"))
    /\ pc' = "date_range"
    /\ UNCHANGED <<inputs, temp_file, result, raised, duration, days, day_i,
                   content, sections, sec_i, parse_vars>>

AddDateRange ==
    /\ pc = "date_range"
    /\ story' = Append(story,
                  [Paragraph(<<"Journey Dates: ", " - ">>, "CustomSubtitle")
                      EXCEPT !.num = <<start_date.d, end_date.d>>])
    /\ pc' = "trip_details"
    /\ UNCHANGED <<inputs, temp_file, result, raised, duration, days, day_i,
                   content, sections, sec_i, parse_vars>>

\* the trip_details dict: the subtraction of two dates
BuildTripDetails ==
    /\ pc = "trip_details"
    /\ start_date.ok /\ end_date.ok
    /\ duration' = Duration(start_date.d, end_date.d)
    /\ pc' = "table"
    /\ UNCHANGED <<inputs, temp_file, result, raised, story, days, day_i,
                   content, sections, sec_i, parse_vars>>

\* the subtraction raises when an argument is no date
RaiseTypeError ==
    /\ pc = "trip_details"
    /\ ~(start_date.ok /\ end_date.ok)
    /\ raised' = "TypeError"
    /\ pc' = "raised"
    /\ UNCHANGED <<inputs, temp_file, result, story, duration, days, day_i,
                   content, sections, sec_i, parse_vars>>

AddOverviewTable ==
    /\ pc = "table"
    /\ story' = story \o
          <<create_overview_table(
               [start_location |-> start_location, destination |-> destination,
                start_date |-> start_date.d, end_date |-> end_date.d,
                duration |-> duration]),
            Spacer(1, 20)>>
    /\ pc' = "separator"
    /\ UNCHANGED <<inputs, temp_file, result, raised, duration, days, day_i,
                   content, sections, sec_i, parse_vars>>

AddFrontSeparator ==
    /\ pc = "separator"
    /\ story' = add_separator(story, 450)
    /\ pc' = "split"
    /\ UNCHANGED <<inputs, temp_file, result, raised, duration, days, day_i,
                   content, sections, sec_i, parse_vars>>

SplitDays ==
    /\ pc = "split"
    /\ days' = re_split(trip_plan)
    /\ day_i' = 1
    /\ pc' = "day"
    /\ UNCHANGED <<inputs, temp_file, result, raised, story, duration, content,
                   sections, sec_i, parse_vars>>

\* if day.strip(): false
SkipBlankDay ==
    /\ pc = "day"
    /\ day_i <= Len(days)
    /\ Strip(days[day_i]) = <<>>
    /\ day_i' = day_i + 1
    /\ UNCHANGED <<inputs, pc, temp_file, result, raised, story, duration, days,
                   content, sections, sec_i, parse_vars>>

\* mutant: the whole chunk is taken as the header, not its first line
DayHeader_WholeChunk(day) ==
    IF re_match(day) THEN day ELSE <<"Trip Overview">>

\* the header of a day chunk
DayHeader(day) ==
    IF re_match(day) THEN Split(day, "\n")[1] ELSE <<"Trip Overview">>

\* the body of a day chunk
DayContent(day) ==
    IF re_match(day) THEN Join(Tail(Split(day, "\n")), "\n") ELSE day

\* mutant: the test  if day.strip()  is lost, blank chunks get a header too
AddDayHeader_NoBlankTest ==
    /\ pc = "day"
    /\ day_i <= Len(days)
    /\ story' = Append(story, Paragraph(DayHeader(days[day_i]), "DayHeader"))
    /\ content' = DayContent(days[day_i])
    /\ pc' = "parse"
    /\ UNCHANGED <<inputs, temp_file, result, raised, duration, days, day_i,
                   sections, sec_i, parse_vars>>

AddDayHeader ==
    /\ pc = "day"
    /\ day_i <= Len(days)
    /\ Strip(days[day_i]) # <<>>
    /\ story' = Append(story, Paragraph(DayHeader(days[day_i]), "DayHeader"))
    /\ content' = DayContent(days[day_i])
    /\ pc' = "parse"
    /\ UNCHANGED <<inputs, temp_file, result, raised, duration, days, day_i,
                   sections, sec_i, parse_vars>>

ParseDay ==
    /\ pc = "parse"
    /\ sections' = parse_section(content)
    /\ sec_i' = 1
    /\ pc' = "section"
    /\ UNCHANGED <<inputs, temp_file, result, raised, story, duration, days,
                   day_i, content, parse_vars>>

AddSection ==
    /\ pc = "section"
    /\ sec_i <= Len(sections)
    /\ story' = story \o SectionBlocks(sections[sec_i])
    /\ sec_i' = sec_i + 1
    /\ UNCHANGED <<inputs, pc, temp_file, result, raised, duration, days, day_i,
                   content, sections, parse_vars>>

\* add_separator after the sections of the day
EndDay ==
    /\ pc = "section"
    /\ sec_i > Len(sections)
    /\ story' = add_separator(story, 450)
    /\ day_i' = day_i + 1
    /\ pc' = "day"
    /\ UNCHANGED <<inputs, temp_file, result, raised, duration, days, content,
                   sections, sec_i, parse_vars>>

\* doc.build succeeds, the path is returned
BuildOk ==
    /\ pc = "day"
    /\ day_i > Len(days)
    /\ result' = "pdf_path"
    /\ pc' = "done"
    /\ UNCHANGED <<inputs, temp_file, raised, story, duration, days, day_i,
                   content, sections, sec_i, parse_vars>>

\* doc.build raises (the rendering engine fails): the error propagates
BuildRaises ==
    /\ pc = "day"
    /\ day_i > Len(days)
    /\ raised' = "BuildError"
    /\ pc' = "raised"
    /\ UNCHANGED <<inputs, temp_file, result, story, duration, days, day_i,
                   content, sections, sec_i, parse_vars>>

Next ==
    \/ CreateTempFile
    \/ AddTitle
    \/ AddDateRange
    \/ BuildTripDetails
    \/ RaiseTypeError
    \/ AddOverviewTable
    \/ AddFrontSeparator
    \/ SplitDays
    \/ SkipBlankDay
    \/ AddDayHeader
    \/ ParseDay
    \/ AddSection
    \/ EndDay
    \/ BuildOk
    \/ BuildRaises

Spec == Init /\ [][Next]_vars

\* ------------------------------------- parse_section run line by line
ParseLineSet ==
    { <<>>,
      <<"a", ":">>,
      <<"b", ":", " ", "a">>,
      <<"1", ":", "2", " ", "a">>,
      <<"a">>,
      <<" ", "b", " ">>,
      <<"-", " ", "a">>,
      <<Bullet, " ", "a">>,
      <<"*", " ", " ", "a", " ", " ", "b">>,
      <<"-", " ", "a", ":", " ", "b">>,
      <<"-", " ", "1", ":", "2">>,
      <<"-", " ">> }

ParseContents == {Join(ls, "\n") : ls \in SeqsUpTo(ParseLineSet, MaxParseLines)}

IdleGenerator ==
    /\ trip_plan = <<>>
    /\ start_location = "Chennai"
    /\ destination = "Goa"
    /\ start_date = Date(1)
    /\ end_date = Date(1)
    /\ pc = "idle"
    /\ temp_file = "none"
    /\ result = "none"
    /\ raised = "none"
    /\ story = <<>>
    /\ duration = 0
    /\ days = <<>>
    /\ day_i = 0
    /\ content = <<>>
    /\ sections = <<>>
    /\ sec_i = 0

ParseInit ==
    /\ IdleGenerator
    /\ p_content \in ParseContents
    /\ lines = <<>>
    /\ line_i = 0
    /\ ps = ParserStart
    /\ ppc = "start"

\* sections = [], current_section = {...}, lines = content.split('\n')
SplitLines ==
    /\ ppc = "start"
    /\ lines' = Split(p_content, "\n")
    /\ line_i' = 1
    /\ ps' = ParserStart
    /\ ppc' = "loop"
    /\ UNCHANGED <<gen_vars, p_content>>

\* one iteration of  for line in lines
ParseLine ==
    /\ ppc = "loop"
    /\ line_i <= Len(lines)
    /\ ps' = ConsumeLine(ps, lines[line_i])
    /\ line_i' = line_i + 1
    /\ UNCHANGED <<gen_vars, p_content, lines, ppc>>

\* the final info join, the final flush and the return
ParseReturn ==
    /\ ppc = "loop"
    /\ line_i > Len(lines)
    /\ ps' = FinishParse(ps)
    /\ ppc' = "returned"
    /\ UNCHANGED <<gen_vars, p_content, lines, line_i>>

ParseNext == SplitLines \/ ParseLine \/ ParseReturn

SpecParse == ParseInit /\ [][ParseNext]_vars

\* ====================================================== generate_trip_pdf
\* the loop over the days has ended: the story is what doc.build receives
StoryBuilt ==
    \/ pc = "day" /\ day_i > Len(days)
    \/ pc = "done"
    \/ pc = "raised" /\ raised = "BuildError"

IsDayHeaderBlock(b) == b.style = "DayHeader"

\* the texts of the day-header paragraphs of a story, in story order
DayHeaderTexts(st) ==
    LET hs == SelectSeq(st, IsDayHeaderBlock) IN [k \in 1..Len(hs) |-> hs[k].text]

PlanLinesOf(text) == Split(text, "\n")

\* the lines of the text that begin with a day marker, in text order
IsMarkerLine(line) == DayMarkerAt(line, 1)

MarkerLines(text) == SelectSeq(PlanLinesOf(text), IsMarkerLine)

\* C1: a plan text without any line beginning with "Day <k>:" / "DAY <k>:"
\* (the empty text, a blank text and a text whose markers are all inside a
\* line included) gives exactly one day block, headed "Trip Overview".
C1_OneTripOverviewBlock ==
    (StoryBuilt /\ MarkerLines(trip_plan) = <<>>)
        => DayHeaderTexts(story) = << <<"Trip Overview">> >>

\* the positions of the text where the day-marker regex matches
Occurrences(text) == {i \in 1..Len(text) : DayMarkerAt(text, i)}

\* the n-th smallest element of a set of numbers
NthOf(S, n) == CHOOSE x \in S : Cardinality({y \in S : y < x}) = n - 1

\* the last position of the piece of line that starts at marker position i:
\* it ends before the next newline or the next marker, whichever comes first
MarkerPieceEnd(text, i) ==
    LET stops == {j \in (i + 1)..Len(text) :
                     text[j] = "\n" \/ DayMarkerAt(text, j)}
    IN  IF stops = {} THEN Len(text)
        ELSE (CHOOSE j \in stops : \A k \in stops : j <= k) - 1

ExpectedDayHeaders(text) ==
    LET occ == Occurrences(text)
        n == Cardinality(occ)
        first == NthOf(occ, 1)
        pre == {i \in 1..(first - 1) : ~IsSpace(text[i])}
    IN  (IF pre # {} THEN << <<"Trip Overview">> >> ELSE <<>>)
        \o [k \in 1..n |->
              SubSeq(text, NthOf(occ, k), MarkerPieceEnd(text, NthOf(occ, k)))]

BlockKind(b) == <<b.type, b.style>>

\* C3 as stated: the story begins with title, subtitle, summary table and
\* separator, nothing between them.
C3_FourBlocksFirst ==
    StoryBuilt =>
        /\ Len(story) >= 4
        /\ BlockKind(story[1]) = <<"Paragraph", "CustomTitle">>
        /\ BlockKind(story[2]) = <<"Paragraph", "CustomSubtitle">>
        /\ BlockKind(story[3]) = <<"Table", "overview">>
        /\ BlockKind(story[4]) = <<"Table", "separator">>

\* C3 amended: the story begins with title, subtitle, summary table, a
\* spacer of height 20, the separator rule and the separator's spacer of
\* height 10, in this order.
C3_FrontMatter ==
    StoryBuilt =>
        /\ Len(story) >= 6
        /\ BlockKind(story[1]) = <<"Paragraph", "CustomTitle">>
        /\ BlockKind(story[2]) = <<"Paragraph", "CustomSubtitle">>
        /\ BlockKind(story[3]) = <<"Table", "overview">>
        /\ BlockKind(story[4]) = <<"Spacer", "">> /\ story[4].num = <<1, 20>>
        /\ BlockKind(story[5]) = <<"Table", "separator">>
        /\ story[5].num = <<450, 2>>
        /\ BlockKind(story[6]) = <<"Spacer", "">> /\ story[6].num = <<1, 10>>

C3_Witness ==
    /\ pc = "done"
    /\ Len(story) > 6
    /\ trip_plan # <<>>

RECURSIVE Flatten(_)
Flatten(ss) == IF ss = <<>> THEN <<>> ELSE Head(ss) \o Flatten(Tail(ss))

\* what one section is to look like in the story: header if any, info if
\* any, the bullets in order, a spacer
ExpectedSectionBlocks(section) ==
    LET h == IF section.header = <<>> THEN 0 ELSE 1
        f == IF section.info = <<>> THEN 0 ELSE 1
        n == Len(section.points)
    IN  [k \in 1..(h + f + n + 1) |->
            IF k <= h THEN Paragraph(section.header, "SectionHeader")
            ELSE IF k <= h + f THEN Paragraph(section.info, "InfoBox")
            ELSE IF k <= h + f + n
                 THEN Paragraph(<<Bullet, " ">> \o section.points[k - h - f],
                                "BulletPoint")
            ELSE Spacer(1, 8)]

\* the day blocks of the segmenter: the non-blank chunks, in text order
IsNonBlank(chunk) == \E i \in 1..Len(chunk) : ~IsSpace(chunk[i])

DayBlocks(text) == SelectSeq(re_split(text), IsNonBlank)

ExpectedDayBlocks(chunk) ==
    LET secs == parse_section(DayContent(chunk)) IN
    <<Paragraph(DayHeader(chunk), "DayHeader")>>
    \o Flatten([k \in 1..Len(secs) |-> ExpectedSectionBlocks(secs[k])])
    \o <<SeparatorRule(450), Spacer(1, 10)>>

\* C4: after the front matter the story is, for each day block in text
\* order, its header, then each of its sections in parse order (header,
\* info, bullets, spacer), then one separator; nothing else.
C4_StoryFollowsSegmenter ==
    StoryBuilt =>
        /\ Len(story) >= 6
        /\ SubSeq(story, 7, Len(story)) =
              Flatten([k \in 1..Len(DayBlocks(trip_plan)) |->
                          ExpectedDayBlocks(DayBlocks(trip_plan)[k])])

C4_Witness ==
    /\ pc = "done"
    /\ Len(DayBlocks(trip_plan)) >= 2
    /\ \E k \in 1..Len(story) : story[k].style = "InfoBox"
    /\ \E k \in 1..Len(story) : story[k].style = "BulletPoint"
    /\ \E k \in 1..Len(story) : story[k].style = "SectionHeader"

\* no line of the text is a section header line or a bullet line
NoSectionLine(text) ==
    \A k \in 1..Len(PlanLinesOf(text)) :
        LET line == Strip(PlanLinesOf(text)[k]) IN
        ~IsHeaderLine(line) /\ ~StartsWithBullet(line)

DayStyles == {"DayHeader", "SectionHeader", "InfoBox", "BulletPoint"}

CountKind(st, kind) == Cardinality({k \in 1..Len(st) : BlockKind(st[k]) = kind})

\* C7 as stated: for an empty text and for a text without header and bullet
\* lines no error is raised and the story holds the front matter only.
C7_FrontMatterOnly ==
    (NoSectionLine(trip_plan) /\ start_date.ok /\ end_date.ok) =>
        /\ raised # "TypeError"
        /\ StoryBuilt =>
              /\ \A k \in 1..Len(story) : story[k].style \notin DayStyles
              /\ CountKind(story, <<"Table", "separator">>) = 1

\* C7 amended: given dates, no error is raised while the story is built; a
\* blank text gives the front matter only; a non-blank text without header
\* and bullet lines gives the front matter followed, for each non-blank
\* chunk, by its day header and one separator, and no section block.
C7_NoSectionBlocks ==
    (NoSectionLine(trip_plan) /\ start_date.ok /\ end_date.ok) =>
        /\ raised # "TypeError"
        /\ StoryBuilt =>
              /\ \A k \in 1..Len(story) :
                    story[k].style \notin {"SectionHeader", "InfoBox", "BulletPoint"}
              /\ CountKind(story, <<"Spacer", "">>) =
                    2 + Len(DayBlocks(trip_plan))
              /\ Len(story) = 6 + 3 * Len(DayBlocks(trip_plan))
              /\ \A k \in 1..Len(DayBlocks(trip_plan)) :
                    /\ IsDayHeaderBlock(story[3 * k + 4])
                    /\ BlockKind(story[3 * k + 5]) = <<"Table", "separator">>
              /\ ~IsNonBlank(trip_plan) => Len(story) = 6

C7_Witness ==
    /\ pc = "done"
    /\ NoSectionLine(trip_plan)
    /\ IsNonBlank(trip_plan)
    /\ Len(DayBlocks(trip_plan)) >= 2
    /\ Len(story) = 12

\* C8: the number in the Duration row is end - start + 1 in days, no error
\* is raised for any pair of dates, a range that runs backwards shows its
\* zero or negative value, and end >= start gives at least 1.
C8_DurationInclusive ==
    /\ (start_date.ok /\ end_date.ok) => raised # "TypeError"
    /\ (Len(story) >= 3) =>
          /\ BlockKind(story[3]) = <<"Table", "overview">>
          /\ story[3].num[3] = end_date.d - start_date.d + 1
          /\ (end_date.d >= start_date.d) => story[3].num[3] >= 1
          /\ (end_date.d < start_date.d) => story[3].num[3] <= 0

C8_Witness ==
    /\ pc = "done"
    /\ end_date.d < start_date.d - 1
    /\ story[3].num[3] < 0

\* C10: when the call has ended, a temporary file that exists is the one
\* whose path was returned.
C10_NoOrphanFile ==
    (pc \in {"done", "raised"} /\ temp_file = "exists") => result = "pdf_path"

\* ========================================================== parse_section
StrippedLine(k) == Strip(lines[k])

FirstColon(line) ==
    CHOOSE i \in 1..Len(line) : line[i] = ":" /\ \A j \in 1..(i - 1) : line[j] # ":"

DigitBeforeColon(line) == \E j \in 1..(FirstColon(line) - 1) : IsDigit(line[j])

\* C5: a line with a colon starts a section exactly when no digit stands
\* before its first colon.  Then it becomes the header of a fresh current
\* section, and the prior current section is flushed to the output exactly
\* when it has a header or a point.  A line with a digit before the colon
\* starts no section, and goes to the info buffer unless it begins with a
\* bullet marker.
C5_HeaderIffNoDigit ==
    [][(ppc = "loop" /\ line_i <= Len(lines) /\ line_i' = line_i + 1) =>
          LET line == StrippedLine(line_i)
              cur == ps.current_section
          IN  (\E i \in 1..Len(line) : line[i] = ":") =>
                IF ~DigitBeforeColon(line)
                THEN /\ ps'.current_section =
                            [header |-> line, points |-> <<>>, info |-> <<>>]
                     /\ ps'.info_block = <<>>
                     /\ ps'.sections =
                            IF cur.header # <<>> \/ cur.points # <<>>
                            THEN Append(ps.sections, cur) ELSE ps.sections
                ELSE /\ ps'.sections = ps.sections
                     /\ ps'.current_section.header = cur.header
                     /\ Head(line) \notin BulletMarkers =>
                            /\ ps'.info_block = Append(ps.info_block, line)
                            /\ ps'.current_section = cur
      ]_vars

C5_Witness ==
    /\ ppc = "loop"
    /\ line_i = 4
    /\ Len(ps.sections) = 1
    /\ ps.current_section.header # <<>>
    /\ ps.info_block = << <<"1", ":", "2", " ", "a">> >>

\* the texts t of the bullet lines "- t", "<U+2022> t", "* t"
BulletTexts ==
    { <<"a">>, <<"a", " ", " ", "b">>, <<"1", ":", "2">>, <<"a", ":", " ", "b">>, <<>> }

\* C6: whatever the marker, the line "<marker> t" starts no section, leaves
\* the info buffer alone and appends the cleaned t to the points of the
\* current section when it is not empty, also when t holds a colon.
C6_BulletsAlike ==
    ppc = "loop" =>
        \A t \in BulletTexts : \A m \in BulletMarkers :
            ConsumeLine(ps, <<m, " ">> \o t) =
                [ps EXCEPT !.current_section.points =
                    IF clean_text(t) # <<>> THEN Append(@, clean_text(t)) ELSE @]

\* the header lines of the body, and the groups of lines they open; group 0
\* is the one before the first header line
HeaderLineNos == {k \in 1..Len(lines) : IsHeaderLine(StrippedLine(k))}

GroupEnd(g) ==
    LET later == {h \in HeaderLineNos : h > g} IN
    IF later = {} THEN Len(lines)
    ELSE (CHOOSE h \in later : \A x \in later : h <= x) - 1

IsInfoLine(k) ==
    /\ StrippedLine(k) # <<>>
    /\ ~IsHeaderLine(StrippedLine(k))
    /\ ~StartsWithBullet(StrippedLine(k))

IsPointLine(k) ==
    /\ ~IsHeaderLine(StrippedLine(k))
    /\ StartsWithBullet(StrippedLine(k))
    /\ clean_text(LStripBullet(StrippedLine(k))) # <<>>

RECURSIVE InfoLinesIn(_, _)
InfoLinesIn(from, to) ==
    IF from > to THEN <<>>
    ELSE (IF IsInfoLine(from) THEN <<StrippedLine(from)>> ELSE <<>>)
         \o InfoLinesIn(from + 1, to)

\* the groups that parse_section emits: those with a header or a point
EmittedGroups ==
    {g \in HeaderLineNos \cup {0} :
        g > 0 \/ \E k \in 1..GroupEnd(0) : IsPointLine(k)}

\* C9: the info of each emitted section is the single-space join of all its
\* info lines, in order.
C9_InfoKeepsAllLines ==
    ppc = "returned" =>
        /\ Len(ps.sections) = Cardinality(EmittedGroups)
        /\ \A n \in 1..Len(ps.sections) :
              LET g == NthOf(EmittedGroups, n) IN
              ps.sections[n].info = Join(InfoLinesIn(g + 1, GroupEnd(g)), " ")

====
